---------------------------- MODULE Spec2Model ----------------------------
(***************************************************************************)
(* The incremental accumulator subsystem of src/nnue/nnue_accumulator.cpp: *)
(* the accumulator stack (reset, push, pop, evaluate), the incremental     *)
(* kernel and the refresh kernel with its per-king-square cache.           *)
(*                                                                         *)
(* The board, the move delta (DirtyPiece), the feature set and the weight  *)
(* tables are collaborators that live outside this file; they are modelled *)
(* on a small board with the contracts the specification gives them.       *)
(***************************************************************************)
EXTENDS Integers, Sequences, FiniteSets, TLC

(***************************************************************************)
(* Bounds of the model.                                                    *)
(***************************************************************************)
\* number of squares of the (one-file) board; the program's board has 64
NumSquares == 5
\* m_accumulators.size(); the program's stack has MAX_PLY + 1 entries
StackSize == 4
\* number of stack operations explored after construction
MaxOps == 5
\* length of the dense vector of the big and of the small network
TransformedFeatureDimensionsBig == 2
TransformedFeatureDimensionsSmall == 1
\* length of the PSQT vector
PSQTBuckets == 2
\* longest removed or added list handed to the refresh kernel on its own
MaxListLen == 4

(***************************************************************************)
(* Types: colors, piece types, pieces, squares.                            *)
(***************************************************************************)
WHITE == 0
BLACK == 1
Colors == {WHITE, BLACK}
ColorSeq == <<WHITE, BLACK>>

PAWN == 1
KNIGHT == 2
BISHOP == 3
ROOK == 4
QUEEN == 5
KING == 6
PieceTypes == PAWN .. KING

NO_PIECE == 0
Squares == 0 .. (NumSquares - 1)
SQ_NONE == NumSquares

Networks == {"big", "small"}

make_piece(c, pt) == c * 8 + pt
type_of(pc) == pc % 8
color_of(pc) == pc \div 8
Opp(c) == 1 - c

W_KING == make_piece(WHITE, KING)
W_ROOK == make_piece(WHITE, ROOK)
W_PAWN == make_piece(WHITE, PAWN)
B_KING == make_piece(BLACK, KING)
B_KNIGHT == make_piece(BLACK, KNIGHT)
B_PAWN == make_piece(BLACK, PAWN)

(***************************************************************************)
(* Position: the board and the side to move, with its read-only queries.   *)
(***************************************************************************)
\* pos.pieces(c, pt), pos.pieces(c), pos.pieces(pt), pos.square<KING>(c)
PiecesCT(pos, c, pt) == pos.byColorBB[c] \cap pos.byTypeBB[pt]
PiecesC(pos, c) == pos.byColorBB[c]
PiecesT(pos, pt) == pos.byTypeBB[pt]
KingSquare(pos, c) == CHOOSE s \in Squares : pos.board[s] = make_piece(c, KING)

\* A position: the board, the side to move, and the bitboards by color and
\* by piece type that the position keeps of its board.
BoardPos(b, stm) ==
    [board |-> b,
     sideToMove |-> stm,
     byColorBB |-> [c \in Colors |->
                      {s \in Squares : b[s] # NO_PIECE /\ color_of(b[s]) = c}],
     byTypeBB |-> [pt \in PieceTypes |->
                     {s \in Squares : b[s] # NO_PIECE /\ type_of(b[s]) = pt}]]

MkPos(b, stm) ==
    BoardPos([s \in Squares |-> IF s + 1 <= Len(b) THEN b[s + 1] ELSE NO_PIECE], stm)

\* The root positions handed to reset.
RootPositions ==
    { MkPos(<<NO_PIECE, W_KING, W_ROOK, B_KNIGHT, B_KING>>, WHITE),
      MkPos(<<W_KING, NO_PIECE, B_KING, W_PAWN, B_KNIGHT>>, WHITE),
      MkPos(<<W_KING, B_KING, NO_PIECE, W_PAWN, NO_PIECE>>, WHITE) }

(***************************************************************************)
(* Moves and the DirtyPiece each produces.  A piece steps to a neighbouring*)
(* square that is empty or holds an enemy piece other than the king; a king*)
(* and a rook of one color standing side by side castle by trading places; *)
(* a pawn that reaches the far end of the board is promoted to a queen.    *)
(***************************************************************************)
Forward(c) == IF c = WHITE THEN 1 ELSE -1
LastSquare(c) == IF c = WHITE THEN NumSquares - 1 ELSE 0

Targets(pos, s) ==
    LET pc == pos.board[s]
        c == color_of(pc)
        steps == IF type_of(pc) = PAWN THEN {s + Forward(c)} ELSE {s - 1, s + 1}
    IN {t \in steps \cap Squares :
          \/ pos.board[t] = NO_PIECE
          \/ /\ color_of(pos.board[t]) # c
             /\ type_of(pos.board[t]) # KING}

NormalMoves(pos) ==
    {[kind |-> "normal", from |-> s, to |-> t] :
        <<s, t>> \in {st \in Squares \X Squares :
            /\ pos.board[st[1]] # NO_PIECE
            /\ color_of(pos.board[st[1]]) = pos.sideToMove
            /\ st[2] \in Targets(pos, st[1])
            /\ ~(type_of(pos.board[st[1]]) = PAWN /\ st[2] = LastSquare(pos.sideToMove))}}

PromotionMoves(pos) ==
    {[kind |-> "promotion", from |-> s, to |-> t] :
        <<s, t>> \in {st \in Squares \X Squares :
            /\ pos.board[st[1]] = make_piece(pos.sideToMove, PAWN)
            /\ st[2] \in Targets(pos, st[1])
            /\ st[2] = LastSquare(pos.sideToMove)}}

\* from: the king's square, to: the rook's square
CastlingMoves(pos) ==
    {[kind |-> "castling", from |-> s, to |-> t] :
        <<s, t>> \in {st \in Squares \X Squares :
            /\ pos.board[st[1]] = make_piece(pos.sideToMove, KING)
            /\ pos.board[st[2]] = make_piece(pos.sideToMove, ROOK)
            /\ st[2] \in {st[1] - 1, st[1] + 1}}}

LegalMoves(pos) == NormalMoves(pos) \cup PromotionMoves(pos) \cup CastlingMoves(pos)

Triple(pc, from, to) == [pc |-> pc, from |-> from, to |-> to]

\* The DirtyPiece of move m made in pos: up to three (piece, from, to) triples.
DirtyPieceOf(pos, m) ==
    LET pc == pos.board[m.from]
        cap == pos.board[m.to]
        capture == IF cap # NO_PIECE /\ m.kind # "castling"
                   THEN <<Triple(cap, m.to, SQ_NONE)>> ELSE <<>>
    IN CASE m.kind = "normal" -> <<Triple(pc, m.from, m.to)>> \o capture
         [] m.kind = "castling" -> <<Triple(pc, m.from, m.to), Triple(cap, m.to, m.from)>>
         [] m.kind = "promotion" ->
               <<Triple(pc, m.from, SQ_NONE)>> \o capture
                 \o <<Triple(make_piece(color_of(pc), QUEEN), SQ_NONE, m.to)>>

\* The position after move m.
DoMove(pos, m) ==
    LET pc == pos.board[m.from]
        b == pos.board
        nb == CASE m.kind = "normal" -> [b EXCEPT ![m.from] = NO_PIECE, ![m.to] = pc]
                [] m.kind = "castling" -> [b EXCEPT ![m.from] = b[m.to], ![m.to] = pc]
                [] m.kind = "promotion" ->
                      [b EXCEPT ![m.from] = NO_PIECE,
                                ![m.to] = make_piece(color_of(pc), QUEEN)]
    IN BoardPos(nb, Opp(pos.sideToMove))


(***************************************************************************)
(* Feature indexing (FeatureSet).                                          *)
(***************************************************************************)
\* Slot of a piece as seen from a perspective: own pieces first.
PieceSlot(perspective, pc) ==
    (IF color_of(pc) = perspective THEN 0 ELSE 6) + (type_of(pc) - 1)

\* FeatureSet::make_index<Perspective>(sq, piece, ksq): injective in
\* (sq, piece, ksq) for a fixed perspective.
make_index(perspective, s, pc, ksq) ==
    (ksq * 12 + PieceSlot(perspective, pc)) * NumSquares + s

\* FeatureSet::requires_refresh(dirtyPiece, perspective): the delta moves the
\* perspective's own king.
requires_refresh(dirtyPiece, perspective) ==
    \E i \in 1 .. Len(dirtyPiece) : dirtyPiece[i].pc = make_piece(perspective, KING)

RECURSIVE RemovedOf(_, _, _)
RemovedOf(perspective, ksq, dp) ==
    IF dp = <<>> THEN <<>>
    ELSE (IF Head(dp).from # SQ_NONE
          THEN <<make_index(perspective, Head(dp).from, Head(dp).pc, ksq)>>
          ELSE <<>>) \o RemovedOf(perspective, ksq, Tail(dp))

RECURSIVE AddedOf(_, _, _)
AddedOf(perspective, ksq, dp) ==
    IF dp = <<>> THEN <<>>
    ELSE (IF Head(dp).to # SQ_NONE
          THEN <<make_index(perspective, Head(dp).to, Head(dp).pc, ksq)>>
          ELSE <<>>) \o AddedOf(perspective, ksq, Tail(dp))

\* FeatureSet::append_changed_indices<Perspective>(ksq, dp, removed, added)
append_changed_indices(perspective, ksq, dp) ==
    [removed |-> RemovedOf(perspective, ksq, dp),
     added |-> AddedOf(perspective, ksq, dp)]

(***************************************************************************)
(* Feature transformer view: the weight tables, flat and row-major by      *)
(* feature index.  Dense elements are 16 bits wide and are kept as their   *)
(* bit patterns 0 .. 2^16 - 1; PSQT elements are 32-bit integers whose     *)
(* sums stay far inside the 32-bit range.                                  *)
(***************************************************************************)
Dimensions(net) ==
    IF net = "big" THEN TransformedFeatureDimensionsBig
    ELSE TransformedFeatureDimensionsSmall

Mod16(x) == x % 65536

\* featureTransformer.weights[i]
weights(net, i) ==
    Mod16(i * i * 37 + i * 7919 + (IF net = "big" THEN 12345 ELSE 54321))

\* featureTransformer.psqtWeights[i]
psqtWeights(net, i) ==
    ((i * i * 7 + i * 13 + (IF net = "big" THEN 5 ELSE 11)) % 201) - 100

vec_add_16(a, b) == Mod16(a + b)
vec_sub_16(a, b) == Mod16(a - b + 65536)
vec_add_psqt_32(a, b) == a + b
vec_sub_psqt_32(a, b) == a - b

\* The weight column of a feature index, as a vector.
to_weight_vector(net, index) ==
    [j \in 1 .. Dimensions(net) |-> weights(net, index * Dimensions(net) + (j - 1))]
to_psqt_weight_vector(net, index) ==
    [k \in 1 .. PSQTBuckets |-> psqtWeights(net, index * PSQTBuckets + (k - 1))]

AddRow16(v, row) == [j \in DOMAIN v |-> vec_add_16(v[j], row[j])]
SubRow16(v, row) == [j \in DOMAIN v |-> vec_sub_16(v[j], row[j])]
AddRow32(v, row) == [k \in DOMAIN v |-> vec_add_psqt_32(v[k], row[k])]
SubRow32(v, row) == [k \in DOMAIN v |-> vec_sub_psqt_32(v[k], row[k])]

(***************************************************************************)
(* Data: Accumulator, AccumulatorState, cache entry.                       *)
(***************************************************************************)
ZeroDense(net) == [j \in 1 .. Dimensions(net) |-> 0]
ZeroPsqt == [k \in 1 .. PSQTBuckets |-> 0]

\* A value-initialised Accumulator<Dimensions>.
EmptyAccumulator(net) ==
    [accumulation |-> [c \in Colors |-> ZeroDense(net)],
     psqtAccumulation |-> [c \in Colors |-> ZeroPsqt],
     computed |-> [c \in Colors |-> FALSE]]

\* A value-initialised AccumulatorState; big and small are the members
\* accumulatorBig and accumulatorSmall.
EmptyAccumulatorState ==
    [dirtyPiece |-> <<>>,
     big |-> EmptyAccumulator("big"),
     small |-> EmptyAccumulator("small")]

\* The initial cache entry: all-zero snapshot with zero bitboards.
EmptyEntry(net) ==
    [accumulation |-> ZeroDense(net),
     psqtAccumulation |-> ZeroPsqt,
     byColorBB |-> [c \in Colors |-> {}],
     byTypeBB |-> [pt \in PieceTypes |-> {}]]

EmptyCache(net) == [ksq \in Squares |-> [c \in Colors |-> EmptyEntry(net)]]

(***************************************************************************)
(* Incremental kernel.                                                     *)
(***************************************************************************)
RECURSIVE AddRows16(_, _, _)
AddRows16(net, v, idx) ==
    IF idx = <<>> THEN v
    ELSE AddRows16(net, AddRow16(v, to_weight_vector(net, Head(idx))), Tail(idx))

RECURSIVE SubRows16(_, _, _)
SubRows16(net, v, idx) ==
    IF idx = <<>> THEN v
    ELSE SubRows16(net, SubRow16(v, to_weight_vector(net, Head(idx))), Tail(idx))

RECURSIVE AddRows32(_, _, _)
AddRows32(net, v, idx) ==
    IF idx = <<>> THEN v
    ELSE AddRows32(net, AddRow32(v, to_psqt_weight_vector(net, Head(idx))), Tail(idx))

RECURSIVE SubRows32(_, _, _)
SubRows32(net, v, idx) ==
    IF idx = <<>> THEN v
    ELSE SubRows32(net, SubRow32(v, to_psqt_weight_vector(net, Head(idx))), Tail(idx))

\* fused_row_reduce<Vec16Wrapper, Dimensions, ops...>(in, out, rows...): the
\* output row, with the Add rows added to and the Sub rows subtracted from in.
fused_row_reduce16(net, in, adds, subs) == SubRows16(net, AddRows16(net, in, adds), subs)
fused_row_reduce32(net, in, adds, subs) == SubRows32(net, AddRows32(net, in, adds), subs)

\* apply whose PSQT row is reduced from `to` instead of `from`.
apply_PsqtFromTo(net, perspective, from, to, ops) ==
    [to EXCEPT
       ![net].accumulation[perspective] =
           fused_row_reduce16(net, from[net].accumulation[perspective], ops.adds, ops.subs),
       ![net].psqtAccumulation[perspective] =
           fused_row_reduce32(net, to[net].psqtAccumulation[perspective],
                              ops.adds, ops.subs)]

\* AccumulatorUpdateContext::apply<ops...>(indices...): writes the perspective's
\* vectors of `to` from those of `from`; ops.adds are the indices of the Add
\* operations and ops.subs those of the Sub operations.  Returns the new `to`.
apply(net, perspective, from, to, ops) ==
    [to EXCEPT
       ![net].accumulation[perspective] =
           fused_row_reduce16(net, from[net].accumulation[perspective], ops.adds, ops.subs),
       ![net].psqtAccumulation[perspective] =
           fused_row_reduce32(net, from[net].psqtAccumulation[perspective],
                              ops.adds, ops.subs)]

FORWARD == "FORWARD"
BACKWARD == "BACKWARD"

\* SwapIf without the swap: the BACKWARD lists taken as the FORWARD ones.
SwapIf_Never(l, swap) == l

SwapIf(l, swap) == IF swap THEN [removed |-> l.added, added |-> l.removed] ELSE l

\* The lists of the update: removed and added of target_state.dirtyPiece going
\* FORWARD, of computed.dirtyPiece with the two swapped going BACKWARD.
IncrementalLists(perspective, Direction, ksq, target_state, computed) ==
    SwapIf(append_changed_indices(perspective, ksq,
                                  IF Direction = FORWARD THEN target_state.dirtyPiece
                                  ELSE computed.dirtyPiece),
           Direction = BACKWARD)

\* The assert inside the branch update_accumulator_incremental takes.
BranchAssert(Direction, added, removed) ==
    IF (Direction = FORWARD /\ Len(removed) = 1) \/ (Direction = BACKWARD /\ Len(added) = 1)
    THEN Len(added) = 1 /\ Len(removed) = 1
    ELSE IF Direction = FORWARD /\ Len(added) = 1
    THEN Len(removed) = 2
    ELSE IF Direction = BACKWARD /\ Len(removed) = 1
    THEN Len(added) = 2
    ELSE Len(added) = 2 /\ Len(removed) = 2

\* The asserts of update_accumulator_incremental on its arguments and lists.
IncrementalAsserts(net, perspective, Direction, target_state, computed, l) ==
    /\ computed[net].computed[perspective]
    /\ ~target_state[net].computed[perspective]
    /\ Len(l.added) \in {1, 2}
    /\ Len(l.removed) \in {1, 2}
    /\ IF Direction = FORWARD THEN Len(l.added) <= Len(l.removed)
       ELSE Len(l.removed) <= Len(l.added)
    /\ BranchAssert(Direction, l.added, l.removed)

\* What a call of the kernel was handed: whether the source was computed and
\* the target was not (pre), and whether the dirty piece it consumed requires
\* a refresh for the perspective (refreshDp).
CallFacts(net, perspective, Direction, target_state, computed) ==
    [pre |-> computed[net].computed[perspective]
               /\ ~target_state[net].computed[perspective],
     refreshDp |-> requires_refresh(IF Direction = FORWARD THEN target_state.dirtyPiece
                                    ELSE computed.dirtyPiece, perspective)]

\* IncrementalBranch whose capture branch forgets the second removed index.
IncrementalBranch_OneSub(Direction, added, removed) ==
    IF Len(added) = 1
    THEN [adds |-> <<added[1]>>, subs |-> <<removed[1]>>]
    ELSE IF Len(removed) = 1
    THEN [adds |-> <<added[1], added[2]>>, subs |-> <<removed[1]>>]
    ELSE [adds |-> <<added[1], added[2]>>, subs |-> <<removed[1], removed[2]>>]

\* IncrementalBranch whose last branch hands added[0] to apply twice.
IncrementalBranch_AddTwice(Direction, added, removed) ==
    IF (Direction = FORWARD /\ Len(removed) = 1) \/ (Direction = BACKWARD /\ Len(added) = 1)
    THEN [adds |-> <<added[1]>>, subs |-> <<removed[1]>>]
    ELSE IF Direction = FORWARD /\ Len(added) = 1
    THEN [adds |-> <<added[1]>>, subs |-> <<removed[1], removed[2]>>]
    ELSE IF Direction = BACKWARD /\ Len(removed) = 1
    THEN [adds |-> <<added[1], added[2]>>, subs |-> <<removed[1]>>]
    ELSE [adds |-> <<added[1], added[1]>>, subs |-> <<removed[1], removed[2]>>]

\* The branch update_accumulator_incremental takes: the indices it hands to
\* apply as Add and as Sub operations.
IncrementalBranch(Direction, added, removed) ==
    IF (Direction = FORWARD /\ Len(removed) = 1) \/ (Direction = BACKWARD /\ Len(added) = 1)
    THEN [adds |-> <<added[1]>>, subs |-> <<removed[1]>>]
    ELSE IF Direction = FORWARD /\ Len(added) = 1
    THEN [adds |-> <<added[1]>>, subs |-> <<removed[1], removed[2]>>]
    ELSE IF Direction = BACKWARD /\ Len(removed) = 1
    THEN [adds |-> <<added[1], added[2]>>, subs |-> <<removed[1]>>]
    ELSE [adds |-> <<added[1], added[2]>>, subs |-> <<removed[1], removed[2]>>]

\* IncrementalWrite without the closing store of computed.
IncrementalWrite_NoFlag(net, perspective, Direction, target_state, computed, l) ==
    [state |->
        IF Len(l.added) \in {1, 2} /\ Len(l.removed) \in {1, 2}
        THEN apply(net, perspective, computed, target_state,
                   IncrementalBranch(Direction, l.added, l.removed))
        ELSE target_state,
     ok |-> IncrementalAsserts(net, perspective, Direction, target_state, computed, l),
     facts |-> CallFacts(net, perspective, Direction, target_state, computed)]

\* IncrementalWrite that sets the computed flag of both networks.
IncrementalWrite_BothFlags(net, perspective, Direction, target_state, computed, l) ==
    [state |->
        IF Len(l.added) \in {1, 2} /\ Len(l.removed) \in {1, 2}
        THEN [apply(net, perspective, computed, target_state,
                    IncrementalBranch(Direction, l.added, l.removed))
                EXCEPT !["big"].computed[perspective] = TRUE,
                       !["small"].computed[perspective] = TRUE]
        ELSE target_state,
     ok |-> IncrementalAsserts(net, perspective, Direction, target_state, computed, l),
     facts |-> CallFacts(net, perspective, Direction, target_state, computed)]

\* The body of update_accumulator_incremental once the lists l are built.
\* Outside the size contract the code reads list elements that were never
\* written; the target is then left as it is and ok is FALSE.
IncrementalWrite(net, perspective, Direction, target_state, computed, l) ==
    [state |->
        IF Len(l.added) \in {1, 2} /\ Len(l.removed) \in {1, 2}
        THEN [apply(net, perspective, computed, target_state,
                    IncrementalBranch(Direction, l.added, l.removed))
                EXCEPT ![net].computed[perspective] = TRUE]
        ELSE target_state,
     ok |-> IncrementalAsserts(net, perspective, Direction, target_state, computed, l),
     facts |-> CallFacts(net, perspective, Direction, target_state, computed)]

\* update_accumulator_incremental<Perspective, Direction>(featureTransformer, ksq,
\* target_state, computed): state is the new target_state, ok tells whether
\* every assert held.
update_accumulator_incremental(net, perspective, Direction, ksq, target_state, computed) ==
    IncrementalWrite(net, perspective, Direction, target_state, computed,
                     IncrementalLists(perspective, Direction, ksq, target_state, computed))

(***************************************************************************)
(* Refresh kernel.                                                         *)
(***************************************************************************)
RECURSIVE SquaresAscending(_)
\* The squares of a bitboard in pop_lsb order.
SquaresAscending(bb) ==
    IF bb = {} THEN <<>>
    ELSE LET s == CHOOSE x \in bb : \A y \in bb : x <= y
         IN <<s>> \o SquaresAscending(bb \ {s})

IndicesOf(perspective, ksq, piece, sqs) ==
    [i \in 1 .. Len(sqs) |-> make_index(perspective, sqs[i], piece, ksq)]

\* The 12 (color, piece type) pairs in the order of the two nested loops.
ColorTypePairs ==
    [i \in 1 .. 12 |-> [c |-> (i - 1) \div 6, pt |-> ((i - 1) % 6) + 1]]

SetMinus(a, b, flip) == IF flip THEN b \ a ELSE a \ b

\* The indices of one (color, piece type) pair: nothing when the bitboard of
\* the difference is empty, one index per square of it otherwise.
DeltaIndices(perspective, ksq, piece, bb) ==
    IF bb = {} THEN <<>> ELSE IndicesOf(perspective, ksq, piece, SquaresAscending(bb))

RECURSIVE RefreshDelta(_, _, _, _, _, _)
\* The removed list (adding = FALSE: oldBB & ~newBB) or the added list
\* (adding = TRUE: newBB & ~oldBB) of the pairs i .. 12.
RefreshDelta(perspective, ksq, entry, pos, i, adding) ==
    IF i > 12 THEN <<>>
    ELSE DeltaIndices(perspective, ksq,
                      make_piece(ColorTypePairs[i].c, ColorTypePairs[i].pt),
                      SetMinus(entry.byColorBB[ColorTypePairs[i].c]
                                  \cap entry.byTypeBB[ColorTypePairs[i].pt],
                               PiecesCT(pos, ColorTypePairs[i].c, ColorTypePairs[i].pt),
                               adding))
           \o RefreshDelta(perspective, ksq, entry, pos, i + 1, adding)

\* RefreshLists that finds nothing to remove.
RefreshLists_NoRemoved(perspective, ksq, entry, pos) ==
    [removed |-> <<>>,
     added |-> RefreshDelta(perspective, ksq, entry, pos, 1, TRUE)]

\* The removed and added lists of a refresh of pos against a cache entry.
RefreshLists(perspective, ksq, entry, pos) ==
    [removed |-> RefreshDelta(perspective, ksq, entry, pos, 1, FALSE),
     added |-> RefreshDelta(perspective, ksq, entry, pos, 1, TRUE)]

\* RefreshPsqt that adds the added columns and leaves the removed ones in.
RefreshPsqt_AddOnly(net, psqt, l) == AddRows32(net, psqt, l.added)

\* The PSQT part: every removed column subtracted, then every added one added.
RefreshPsqt(net, psqt, l) == AddRows32(net, SubRows32(net, psqt, l.removed), l.added)

\* Scalar path, dense part: every removed column subtracted from the entry,
\* then every added column added to it.
RefreshDenseScalar(net, acc, l) == AddRows16(net, SubRows16(net, acc, l.removed), l.added)

Min(a, b) == IF a <= b THEN a ELSE b
Max(a, b) == IF a >= b THEN a ELSE b
Abs(x) == IF x < 0 THEN -x ELSE x
SubSeqFrom(sq, i) == SubSeq(sq, i, Len(sq))

\* const bool combineLast3
combineLast3(removed, added) ==
    Abs(Len(removed) - Len(added)) = 1 /\ Len(removed) + Len(added) > 2

RECURSIVE FusedPairs(_, _, _, _, _, _)
\* for (; i < n; ++i) acc = fused<Add, Sub>(acc, columnA, columnR), i counted from 0
FusedPairs(net, acc, removed, added, i, n) ==
    IF i >= n THEN acc
    ELSE FusedPairs(net,
                    fused_row_reduce16(net, acc, <<added[i + 1]>>, <<removed[i + 1]>>),
                    removed, added, i + 1, n)

\* FusedTail whose triple for the longer removed list leaves out columnR2.
FusedTail_OneSub(net, acc, removed, added, n) ==
    IF combineLast3(removed, added)
    THEN fused_row_reduce16(net, acc,
            IF Len(removed) > Len(added) THEN <<added[n + 1]>>
            ELSE <<added[n + 1], added[n + 2]>>,
            <<removed[n + 1]>>)
    ELSE AddRows16(net,
            SubRows16(net, acc, SubSeqFrom(removed, n + 1)),
            SubSeqFrom(added, Max(n, Len(removed)) + 1))

\* What follows the loop of fused pairs, which ended with i = n: the fused
\* triple when combineLast3 holds, the rest of removed and then of added
\* otherwise.
FusedTail(net, acc, removed, added, n) ==
    IF combineLast3(removed, added)
    THEN fused_row_reduce16(net, acc,
            IF Len(removed) > Len(added) THEN <<added[n + 1]>>
            ELSE <<added[n + 1], added[n + 2]>>,
            IF Len(removed) > Len(added) THEN <<removed[n + 1], removed[n + 2]>>
            ELSE <<removed[n + 1]>>)
    ELSE AddRows16(net,
            SubRows16(net, acc, SubSeqFrom(removed, n + 1)),
            SubSeqFrom(added, Max(n, Len(removed)) + 1))

\* The bound of the loop of fused pairs.
FusedPairCount(removed, added) ==
    Min(Len(removed), Len(added)) - (IF combineLast3(removed, added) THEN 1 ELSE 0)

\* VECTOR path, dense part.
RefreshDenseVector(net, acc, l) ==
    FusedTail(net,
              FusedPairs(net, acc, l.removed, l.added, 0, FusedPairCount(l.removed, l.added)),
              l.removed, l.added, FusedPairCount(l.removed, l.added))

\* The entry's snapshot after the lists l are applied.
RefreshSnapshot(vector, net, entry, l) ==
    [accumulation |-> IF vector THEN RefreshDenseVector(net, entry.accumulation, l)
                      ELSE RefreshDenseScalar(net, entry.accumulation, l),
     psqtAccumulation |-> RefreshPsqt(net, entry.psqtAccumulation, l)]

\* RefreshStore without the closing overwrite of the entry's bitboards.
RefreshStore_KeepBB(net, perspective, ksq, pos, accumulatorState, cache, snap) ==
    [state |-> [accumulatorState EXCEPT
                  ![net].computed[perspective] = TRUE,
                  ![net].accumulation[perspective] = snap.accumulation,
                  ![net].psqtAccumulation[perspective] = snap.psqtAccumulation],
     cache |-> [cache EXCEPT ![ksq][perspective].accumulation = snap.accumulation,
                             ![ksq][perspective].psqtAccumulation = snap.psqtAccumulation]]

\* The stores of the refresh: the snapshot into the entry and into the
\* accumulator, computed set, the entry's bitboards taken from pos.
RefreshStore(net, perspective, ksq, pos, accumulatorState, cache, snap) ==
    [state |-> [accumulatorState EXCEPT
                  ![net].computed[perspective] = TRUE,
                  ![net].accumulation[perspective] = snap.accumulation,
                  ![net].psqtAccumulation[perspective] = snap.psqtAccumulation],
     cache |-> [cache EXCEPT ![ksq][perspective] =
                  [accumulation |-> snap.accumulation,
                   psqtAccumulation |-> snap.psqtAccumulation,
                   byColorBB |-> [c \in Colors |-> PiecesC(pos, c)],
                   byTypeBB |-> [pt \in PieceTypes |-> PiecesT(pos, pt)]]]]

RefreshAt(vector, net, perspective, ksq, pos, accumulatorState, cache) ==
    RefreshStore(net, perspective, ksq, pos, accumulatorState, cache,
                 RefreshSnapshot(vector, net, cache[ksq][perspective],
                                 RefreshLists(perspective, ksq, cache[ksq][perspective], pos)))

\* update_accumulator_refresh_cache that selects the cache entry by the king
\* square of the other colour.
update_accumulator_refresh_cache_OtherKing(vector, net, perspective, pos, accumulatorState, cache) ==
    RefreshAt(vector, net, perspective, KingSquare(pos, Opp(perspective)), pos,
              accumulatorState, cache)

\* update_accumulator_refresh_cache<Perspective>(featureTransformer, pos,
\* accumulatorState, cache): the new accumulatorState and the new cache.
update_accumulator_refresh_cache(vector, net, perspective, pos, accumulatorState, cache) ==
    RefreshAt(vector, net, perspective, KingSquare(pos, perspective), pos,
              accumulatorState, cache)

(***************************************************************************)
(* State.                                                                  *)
(***************************************************************************)
VARIABLES
    m_current_idx,   \* AccumulatorStack::m_current_idx
    m_accumulators,  \* AccumulatorStack::m_accumulators, indexed from 0
    caches,          \* AccumulatorCaches: caches.big and caches.small
    positions,       \* the searched line: positions[i + 1] is the position of ply i
    VECTOR,          \* whether the build defines VECTOR
    nops,            \* number of stack operations made so far
    lastOp           \* the last stack operation and the path it took

vars == <<m_current_idx, m_accumulators, caches, positions, VECTOR, nops, lastOp>>

StackIndices == 0 .. (StackSize - 1)

\* The position of the current ply.
CurrentPos == positions[Len(positions)]

(***************************************************************************)
(* AccumulatorStack.                                                       *)
(***************************************************************************)
\* AccumulatorState::reset that clears the flags of the big network only.
AccumulatorState_reset_BigOnly(state, dp) ==
    [state EXCEPT !.dirtyPiece = dp,
                  !.big.computed = [c \in Colors |-> FALSE]]

\* AccumulatorState::reset(dp)
AccumulatorState_reset(state, dp) ==
    [state EXCEPT !.dirtyPiece = dp,
                  !.big.computed = [c \in Colors |-> FALSE],
                  !.small.computed = [c \in Colors |-> FALSE]]

RECURSIVE FindLastComputed(_, _, _, _)
\* The loop of find_last_usable_accumulator without its requires_refresh stop.
FindLastComputed(accs, net, perspective, curr_idx) ==
    IF curr_idx <= 0 THEN 0
    ELSE IF accs[curr_idx][net].computed[perspective] THEN curr_idx
    ELSE FindLastComputed(accs, net, perspective, curr_idx - 1)

RECURSIVE FindLastUsable_OtherSide(_, _, _, _)
\* The loop of find_last_usable_accumulator asking requires_refresh for the
\* other perspective.
FindLastUsable_OtherSide(accs, net, perspective, curr_idx) ==
    IF curr_idx <= 0 THEN 0
    ELSE IF accs[curr_idx][net].computed[perspective] THEN curr_idx
    ELSE IF requires_refresh(accs[curr_idx].dirtyPiece, Opp(perspective)) THEN curr_idx
    ELSE FindLastUsable_OtherSide(accs, net, perspective, curr_idx - 1)

RECURSIVE FindLastUsable_Before(_, _, _, _)
\* The loop of find_last_usable_accumulator whose requires_refresh stop
\* returns the state below the one that requires the refresh.
FindLastUsable_Before(accs, net, perspective, curr_idx) ==
    IF curr_idx <= 0 THEN 0
    ELSE IF accs[curr_idx][net].computed[perspective] THEN curr_idx
    ELSE IF requires_refresh(accs[curr_idx].dirtyPiece, perspective) THEN curr_idx - 1
    ELSE FindLastUsable_Before(accs, net, perspective, curr_idx - 1)

RECURSIVE FindLastUsable(_, _, _, _)
\* the loop of find_last_usable_accumulator, from curr_idx down
FindLastUsable(accs, net, perspective, curr_idx) ==
    IF curr_idx <= 0 THEN 0
    ELSE IF accs[curr_idx][net].computed[perspective] THEN curr_idx
    ELSE IF requires_refresh(accs[curr_idx].dirtyPiece, perspective) THEN curr_idx
    ELSE FindLastUsable(accs, net, perspective, curr_idx - 1)

\* find_last_usable_accumulator that starts its scan below the latest state.
find_last_usable_accumulator_BelowLatest(accs, idx, net, perspective) ==
    FindLastUsable(accs, net, perspective, idx - 2)

\* AccumulatorStack::find_last_usable_accumulator<Perspective>()
find_last_usable_accumulator(accs, idx, net, perspective) ==
    FindLastUsable(accs, net, perspective, idx - 1)

\* One pass of a propagation loop: the kernel's result u stored at next.
LoopStep(r, next, u) ==
    [accs |-> [r.accs EXCEPT ![next] = u.state],
     ok |-> r.ok /\ u.ok,
     pre |-> r.pre /\ u.facts.pre,
     refreshDp |-> r.refreshDp \/ u.facts.refreshDp,
     calls |-> r.calls + 1]

RECURSIVE IncrementalLoop(_, _, _, _, _, _, _)
\* FORWARD:  for (; next < bound; next++)  kernel(accs[next], accs[next - 1])
\* BACKWARD: for (; next >= bound; next--) kernel(accs[next], accs[next + 1]),
\*           as far as next stays inside the stack
\* r.accs is the stack so far, r.ok whether every assert held so far.
IncrementalLoop(r, net, perspective, Direction, ksq, next, bound) ==
    IF \/ Direction = FORWARD /\ next >= bound
       \/ Direction = BACKWARD /\ (next < bound \/ next < 0)
    THEN r
    ELSE IncrementalLoop(
           LoopStep(r, next,
                    update_accumulator_incremental(
                       net, perspective, Direction, ksq, r.accs[next],
                       r.accs[IF Direction = FORWARD THEN next - 1 ELSE next + 1])),
           net, perspective, Direction, ksq,
           IF Direction = FORWARD THEN next + 1 ELSE next - 1, bound)

\* The propagation's result with its closing assert on accs[at]; the loop
\* index of the backward propagation is unsigned, so with end = 0 its test
\* next >= end never fails and next wraps past the stack (inBounds FALSE).
LoopResult(r, net, perspective, at, inBounds) ==
    [accs |-> r.accs,
     ok |-> r.ok /\ r.accs[at][net].computed[perspective],
     inBounds |-> inBounds,
     pre |-> r.pre,
     refreshDp |-> r.refreshDp,
     calls |-> r.calls]

\* AccumulatorStack::forward_update_incremental<Perspective>(pos, ft, begin)
forward_update_incremental(accs, idx, net, perspective, pos, begin) ==
    LoopResult(
      IncrementalLoop([accs |-> accs,
                       ok |-> begin < StackSize /\ accs[begin][net].computed[perspective],
                       pre |-> TRUE,
                       refreshDp |-> FALSE,
                       calls |-> 0],
                      net, perspective, FORWARD, KingSquare(pos, perspective),
                      begin + 1, idx),
      net, perspective, idx - 1, TRUE)

\* backward_update_incremental whose loop stops one state above end.
backward_update_incremental_StopEarly(accs, idx, net, perspective, pos, end) ==
    LoopResult(
      IncrementalLoop([accs |-> accs,
                       ok |-> /\ end < StackSize
                              /\ end < idx
                              /\ accs[idx - 1][net].computed[perspective],
                       pre |-> TRUE,
                       refreshDp |-> FALSE,
                       calls |-> 0],
                      net, perspective, BACKWARD, KingSquare(pos, perspective),
                      idx - 2, end + 1),
      net, perspective, end, end > 0 /\ idx >= 2)

\* backward_update_incremental whose loop runs one state further down.
backward_update_incremental_OneMore(accs, idx, net, perspective, pos, end) ==
    LoopResult(
      IncrementalLoop([accs |-> accs,
                       ok |-> /\ end < StackSize
                              /\ end < idx
                              /\ accs[idx - 1][net].computed[perspective],
                       pre |-> TRUE,
                       refreshDp |-> FALSE,
                       calls |-> 0],
                      net, perspective, BACKWARD, KingSquare(pos, perspective),
                      idx - 2, end - 1),
      net, perspective, end, end > 0 /\ idx >= 2)

\* AccumulatorStack::backward_update_incremental<Perspective>(pos, ft, end)
backward_update_incremental(accs, idx, net, perspective, pos, end) ==
    LoopResult(
      IncrementalLoop([accs |-> accs,
                       ok |-> /\ end < StackSize
                              /\ end < idx
                              /\ accs[idx - 1][net].computed[perspective],
                       pre |-> TRUE,
                       refreshDp |-> FALSE,
                       calls |-> 0],
                      net, perspective, BACKWARD, KingSquare(pos, perspective),
                      idx - 2, end),
      net, perspective, end, end > 0 /\ idx >= 2)

\* What evaluate_side leaves: the stack, the cache and the path taken.
SideResult(u, cache, k, refreshed) ==
    [accs |-> u.accs, cache |-> cache, ok |-> u.ok, inBounds |-> u.inBounds,
     pre |-> u.pre, refreshDp |-> u.refreshDp,
     k |-> k, refreshed |-> refreshed, calls |-> u.calls]

\* The else branch of evaluate_side after its refresh rf of mut_latest().
BackwardAfterRefresh(rf, accs, idx, net, perspective, pos, last_usable_accum) ==
    SideResult(backward_update_incremental([accs EXCEPT ![idx - 1] = rf.state],
                                           idx, net, perspective, pos, last_usable_accum),
               rf.cache, last_usable_accum, TRUE)

\* evaluate_side that refreshes the latest state and propagates backward
\* whatever last_usable_accum holds.
EvaluateSideFrom_AlwaysRefresh(vector, accs, idx, net, perspective, pos, cache, last_usable_accum) ==
    BackwardAfterRefresh(
      update_accumulator_refresh_cache(vector, net, perspective, pos,
                                       accs[idx - 1], cache),
      accs, idx, net, perspective, pos, last_usable_accum)

\* evaluate_side with last_usable_accum found.
EvaluateSideFrom(vector, accs, idx, net, perspective, pos, cache, last_usable_accum) ==
    IF accs[last_usable_accum][net].computed[perspective]
    THEN SideResult(forward_update_incremental(accs, idx, net, perspective, pos,
                                               last_usable_accum),
                    cache, last_usable_accum, FALSE)
    ELSE BackwardAfterRefresh(
           update_accumulator_refresh_cache(vector, net, perspective, pos,
                                            accs[idx - 1], cache),
           accs, idx, net, perspective, pos, last_usable_accum)

\* AccumulatorStack::evaluate_side<Perspective>(pos, featureTransformer, cache)
evaluate_side(vector, accs, idx, net, perspective, pos, cache) ==
    EvaluateSideFrom(vector, accs, idx, net, perspective, pos, cache,
                     find_last_usable_accumulator(accs, idx, net, perspective))

NoSide ==
    [ok |-> TRUE, inBounds |-> TRUE, pre |-> TRUE, refreshDp |-> FALSE,
     k |-> 0, refreshed |-> FALSE, calls |-> 0]

MergeSide(r, c, s) ==
    [accs |-> s.accs, cache |-> s.cache,
     sides |-> [r.sides EXCEPT ![c] =
                  [ok |-> s.ok, inBounds |-> s.inBounds, pre |-> s.pre,
                   refreshDp |-> s.refreshDp, k |-> s.k,
                   refreshed |-> s.refreshed, calls |-> s.calls]]]

RECURSIVE EvaluateSides(_, _, _, _, _, _)
EvaluateSides(r, vector, idx, net, pos, colors) ==
    IF colors = <<>> THEN r
    ELSE EvaluateSides(
           MergeSide(r, Head(colors),
                     evaluate_side(vector, r.accs, idx, net, Head(colors), pos, r.cache)),
           vector, idx, net, pos, Tail(colors))

\* AccumulatorStack::evaluate(pos, featureTransformer, cache): evaluate_side for
\* WHITE, then for BLACK.
evaluate(vector, accs, idx, net, pos, cache) ==
    EvaluateSides([accs |-> accs, cache |-> cache, sides |-> [c \in Colors |-> NoSide]],
                  vector, idx, net, pos, ColorSeq)

\* The refreshes of reset without the last one.
ResetOrder_NoSmallBlack ==
    <<[net |-> "big", perspective |-> WHITE], [net |-> "big", perspective |-> BLACK],
      [net |-> "small", perspective |-> WHITE]>>

\* The four refreshes of reset, in their order.
ResetOrder ==
    <<[net |-> "big", perspective |-> WHITE], [net |-> "big", perspective |-> BLACK],
      [net |-> "small", perspective |-> WHITE], [net |-> "small", perspective |-> BLACK]>>

MergeRefresh(r, net, rf) ==
    [state |-> rf.state, caches |-> [r.caches EXCEPT ![net] = rf.cache]]

RECURSIVE ResetLoop(_, _, _, _)
ResetLoop(r, vector, rootPos, todo) ==
    IF todo = <<>> THEN r
    ELSE ResetLoop(
           MergeRefresh(r, Head(todo).net,
                        update_accumulator_refresh_cache(
                           vector, Head(todo).net, Head(todo).perspective, rootPos,
                           r.state, r.caches[Head(todo).net])),
           vector, rootPos, Tail(todo))

\* AccumulatorStack::reset(rootPos, networks, caches): state is the new
\* m_accumulators[0].
stack_reset(vector, accs, rootPos, cs) ==
    ResetLoop([state |-> accs[0], caches |-> cs], vector, rootPos, ResetOrder)

Op(name, net) == [op |-> name, net |-> net, sides |-> [c \in Colors |-> NoSide]]

(***************************************************************************)
(* Actions.                                                                *)
(***************************************************************************)
Init ==
    /\ m_current_idx = 0
    /\ m_accumulators = [i \in StackIndices |-> EmptyAccumulatorState]
    /\ caches = [big |-> EmptyCache("big"), small |-> EmptyCache("small")]
    /\ positions = <<>>
    /\ VECTOR \in BOOLEAN
    /\ nops = 0
    /\ lastOp = Op("construct", "none")

ResetWrites(r) ==
    /\ m_current_idx' = 1
    /\ m_accumulators' = [m_accumulators EXCEPT ![0] = r.state]
    /\ caches' = r.caches

Reset(rootPos) ==
    /\ nops < MaxOps
    /\ ResetWrites(stack_reset(VECTOR, m_accumulators, rootPos, caches))
    /\ positions' = <<rootPos>>
    /\ nops' = nops + 1
    /\ lastOp' = Op("reset", "none")
    /\ UNCHANGED VECTOR

\* push that resets the state below the one it should.
Push_OffByOne(m) ==
    /\ nops < MaxOps
    /\ m_current_idx >= 1
    /\ m_current_idx + 1 < StackSize
    /\ m_accumulators' =
         [m_accumulators EXCEPT ![m_current_idx - 1] =
            AccumulatorState_reset(m_accumulators[m_current_idx - 1],
                                   DirtyPieceOf(CurrentPos, m))]
    /\ m_current_idx' = m_current_idx + 1
    /\ positions' = Append(positions, DoMove(CurrentPos, m))
    /\ nops' = nops + 1
    /\ lastOp' = Op("push", "none")
    /\ UNCHANGED <<caches, VECTOR>>

Push(m) ==
    /\ nops < MaxOps
    /\ m_current_idx >= 1
    /\ m_current_idx + 1 < StackSize
    /\ m_accumulators' =
         [m_accumulators EXCEPT ![m_current_idx] =
            AccumulatorState_reset(m_accumulators[m_current_idx],
                                   DirtyPieceOf(CurrentPos, m))]
    /\ m_current_idx' = m_current_idx + 1
    /\ positions' = Append(positions, DoMove(CurrentPos, m))
    /\ nops' = nops + 1
    /\ lastOp' = Op("push", "none")
    /\ UNCHANGED <<caches, VECTOR>>

\* pop that also clears the computed flags of the state it leaves.
Pop_ClearsPopped ==
    /\ nops < MaxOps
    /\ m_current_idx > 1
    /\ m_current_idx' = m_current_idx - 1
    /\ m_accumulators' =
         [m_accumulators EXCEPT ![m_current_idx - 1] =
            AccumulatorState_reset(m_accumulators[m_current_idx - 1],
                                   m_accumulators[m_current_idx - 1].dirtyPiece)]
    /\ positions' = SubSeq(positions, 1, Len(positions) - 1)
    /\ nops' = nops + 1
    /\ lastOp' = Op("pop", "none")
    /\ UNCHANGED <<caches, VECTOR>>

Pop ==
    /\ nops < MaxOps
    /\ m_current_idx > 1
    /\ m_current_idx' = m_current_idx - 1
    /\ positions' = SubSeq(positions, 1, Len(positions) - 1)
    /\ nops' = nops + 1
    /\ lastOp' = Op("pop", "none")
    /\ UNCHANGED <<m_accumulators, caches, VECTOR>>

EvaluateWrites(net, r) ==
    /\ m_accumulators' = r.accs
    /\ caches' = [caches EXCEPT ![net] = r.cache]
    /\ lastOp' = [op |-> "evaluate", net |-> net, sides |-> r.sides]

Evaluate(net) ==
    /\ nops < MaxOps
    /\ m_current_idx >= 1
    /\ EvaluateWrites(net, evaluate(VECTOR, m_accumulators, m_current_idx, net,
                                    CurrentPos, caches[net]))
    /\ nops' = nops + 1
    /\ UNCHANGED <<m_current_idx, positions, VECTOR>>

\* The moves the search may make at the current ply.
PushableMoves == IF m_current_idx >= 1 THEN LegalMoves(CurrentPos) ELSE {}

Next ==
    \/ \E rootPos \in RootPositions : Reset(rootPos)
    \/ \E m \in PushableMoves : Push(m)
    \/ Pop
    \/ \E net \in Networks : Evaluate(net)

Spec == Init /\ [][Next]_vars

(***************************************************************************)
(* The two kernels called on their own, on arguments drawn from small sets:*)
(* the incremental kernel on the delta of every move of a few positions,   *)
(* in both directions, and the dense and PSQT arithmetic of the refresh    *)
(* kernel on removed and added lists of every pair of lengths.             *)
(***************************************************************************)
\* The positions whose moves supply the dirty pieces: the roots and the
\* positions one move away from them.
KernelPositions ==
    RootPositions \cup {DoMove(r, m) : <<r, m>> \in
                           {rm \in RootPositions \X UNION {LegalMoves(r) : r \in RootPositions} :
                               rm[2] \in LegalMoves(rm[1])}}

\* Vectors a source state or a cache entry may hold: zero, or values next to
\* the top of the 16-bit range.
StartDense(net, high) == [j \in 1 .. Dimensions(net) |-> IF high THEN 65536 - j ELSE 0]
StartPsqt(high) == [k \in 1 .. PSQTBuckets |-> IF high THEN 1000 * k ELSE 0]

\* A state computed for one network and perspective, holding the start
\* vectors and the dirty piece dp.
SourceState(net, perspective, high, dp) ==
    [AccumulatorState_reset(EmptyAccumulatorState, dp) EXCEPT
       ![net].computed[perspective] = TRUE,
       ![net].accumulation[perspective] = StartDense(net, high),
       ![net].psqtAccumulation[perspective] = StartPsqt(high)]

\* The call update_accumulator_incremental(ft, ksq, target, source) with its
\* arguments and its result.
IncrementalRecord(net, perspective, Direction, ksq, dp, target, source) ==
    [op |-> "incremental", net |-> net, perspective |-> perspective,
     Direction |-> Direction, ksq |-> ksq, dp |-> dp, source |-> source,
     result |-> update_accumulator_incremental(net, perspective, Direction, ksq,
                                               target, source)]

\* The incremental kernel called for move m of pos: going FORWARD the target
\* carries the dirty piece, going BACKWARD the source does.
IncrementalCall(net, perspective, Direction, pos, m, high) ==
    /\ lastOp.op = "construct"
    /\ ~requires_refresh(DirtyPieceOf(pos, m), perspective)
    /\ lastOp' = IncrementalRecord(
                    net, perspective, Direction, KingSquare(pos, perspective),
                    DirtyPieceOf(pos, m),
                    AccumulatorState_reset(EmptyAccumulatorState,
                                           IF Direction = FORWARD THEN DirtyPieceOf(pos, m)
                                           ELSE <<>>),
                    SourceState(net, perspective, high,
                                IF Direction = FORWARD THEN <<>> ELSE DirtyPieceOf(pos, m)))
    /\ UNCHANGED <<m_current_idx, m_accumulators, caches, positions, VECTOR, nops>>

\* A list of n feature indices.
IndexList(base, stride, n) == [i \in 1 .. n |-> base + stride * i]

\* A cache entry holding the start vectors.
StartEntry(net, high) ==
    [EmptyEntry(net) EXCEPT !.accumulation = StartDense(net, high),
                            !.psqtAccumulation = StartPsqt(high)]

\* The snapshot arithmetic of the refresh kernel on an entry and lists l, on
\* the VECTOR path (fused) and on the scalar path (straight).
RefreshRecord(net, entry, l) ==
    [op |-> "refresh", net |-> net, entry |-> entry, l |-> l,
     fused |-> RefreshSnapshot(TRUE, net, entry, l),
     straight |-> RefreshSnapshot(FALSE, net, entry, l)]

RefreshCall(net, high, base, nr, na) ==
    /\ lastOp.op = "construct"
    /\ lastOp' = RefreshRecord(net, StartEntry(net, high),
                               [removed |-> IndexList(base, 3, nr),
                                added |-> IndexList(base + 1, 5, na)])
    /\ UNCHANGED <<m_current_idx, m_accumulators, caches, positions, VECTOR, nops>>

KernelNext ==
    \/ \E net \in Networks, perspective \in Colors, Direction \in {FORWARD, BACKWARD},
          pos \in KernelPositions, high \in BOOLEAN :
          \E m \in LegalMoves(pos) :
             IncrementalCall(net, perspective, Direction, pos, m, high)
    \/ \E net \in Networks, high \in BOOLEAN, base \in {0, 40},
          nr \in 0 .. MaxListLen, na \in 0 .. MaxListLen :
          RefreshCall(net, high, base, nr, na)

KernelSpec == Init /\ [][KernelNext]_vars

(***************************************************************************)
(* The exact transform: the sum, over the features active in a piece       *)
(* placement seen from a perspective with the king on ksq, of the weight   *)
(* columns (dense: modulo 2^16) and of the PSQT columns.                   *)
(***************************************************************************)
\* The pieces a pair of bitboard arrays records, square by square.
PlacementOf(byColorBB, byTypeBB) ==
    [s \in Squares |->
       IF \E c \in Colors, pt \in PieceTypes : s \in byColorBB[c] \cap byTypeBB[pt]
       THEN LET cp == CHOOSE cp \in Colors \X PieceTypes :
                         s \in byColorBB[cp[1]] \cap byTypeBB[cp[2]]
            IN make_piece(cp[1], cp[2])
       ELSE NO_PIECE]

\* The feature indices active in a placement.
ActiveFeatures(perspective, ksq, board) ==
    {make_index(perspective, s, board[s], ksq) : s \in {t \in Squares : board[t] # NO_PIECE}}

RECURSIVE SumDense(_, _, _)
SumDense(net, features, j) ==
    IF features = {} THEN 0
    ELSE LET f == CHOOSE x \in features : TRUE
         IN Mod16(weights(net, f * Dimensions(net) + (j - 1))
                    + SumDense(net, features \ {f}, j))

RECURSIVE SumPsqt(_, _, _)
SumPsqt(net, features, k) ==
    IF features = {} THEN 0
    ELSE LET f == CHOOSE x \in features : TRUE
         IN psqtWeights(net, f * PSQTBuckets + (k - 1)) + SumPsqt(net, features \ {f}, k)

TransformOf(net, features) ==
    [accumulation |-> [j \in 1 .. Dimensions(net) |-> SumDense(net, features, j)],
     psqtAccumulation |-> [k \in 1 .. PSQTBuckets |-> SumPsqt(net, features, k)]]

\* The exact transform of a position from a perspective.
FullTransform(net, pos, perspective) ==
    TransformOf(net, ActiveFeatures(perspective, KingSquare(pos, perspective), pos.board))

\* The vectors an accumulator state stores for a network and a perspective.
VectorsOf(state, net, perspective) ==
    [accumulation |-> state[net].accumulation[perspective],
     psqtAccumulation |-> state[net].psqtAccumulation[perspective]]

SnapshotOf(entry) ==
    [accumulation |-> entry.accumulation, psqtAccumulation |-> entry.psqtAccumulation]

Latest == m_accumulators[m_current_idx - 1]

(***************************************************************************)
(* Properties.                                                             *)
(***************************************************************************)
OtherNet(net) == IF net = "big" THEN "small" ELSE "big"

\* The vectors a refresh of pos against the initial, empty cache produces.
FromScratch(net, pos, perspective) ==
    VectorsOf(update_accumulator_refresh_cache(VECTOR, net, perspective, pos,
                                               EmptyAccumulatorState,
                                               EmptyCache(net)).state,
              net, perspective)

\* C1: every evaluate leaves the dense and PSQT vectors of the latest state,
\* for each perspective of the evaluated network, equal to the exact transform
\* of the current position, which is what a from-scratch refresh of it gives.
C1_EvaluateEqualsRefresh ==
    lastOp.op = "evaluate" =>
       \A p \in Colors :
          /\ VectorsOf(Latest, lastOp.net, p) = FullTransform(lastOp.net, CurrentPos, p)
          /\ VectorsOf(Latest, lastOp.net, p) = FromScratch(lastOp.net, CurrentPos, p)

\* An evaluate two plies above the root that refreshed one perspective and
\* propagated backward, and propagated the other perspective forward twice.
C1_Witness ==
    /\ lastOp.op = "evaluate"
    /\ m_current_idx = 3
    /\ \E p \in Colors :
          /\ lastOp.sides[p].refreshed /\ lastOp.sides[p].calls >= 1
          /\ ~lastOp.sides[Opp(p)].refreshed /\ lastOp.sides[Opp(p)].calls >= 2
          /\ VectorsOf(Latest, lastOp.net, p) = FullTransform(lastOp.net, CurrentPos, p)

\* C2: in every reachable state, a state of the searched line whose computed
\* flag is set for a network and a perspective stores the exact transform of
\* the position of its ply.
C2_ComputedIsExact ==
    \A i \in 0 .. (m_current_idx - 1), net \in Networks, p \in Colors :
       m_accumulators[i][net].computed[p] =>
          VectorsOf(m_accumulators[i], net, p) = FullTransform(net, positions[i + 1], p)

\* Three plies all computed for one network by an evaluate that propagated
\* backward, while the other network's latest state is not computed.
C2_Witness ==
    /\ lastOp.op = "evaluate"
    /\ m_current_idx = 3
    /\ \A i \in 0 .. 2, p \in Colors : m_accumulators[i][lastOp.net].computed[p]
    /\ \E p \in Colors : lastOp.sides[p].refreshed /\ lastOp.sides[p].calls >= 1
    /\ \E p \in Colors : ~Latest[OtherNet(lastOp.net)].computed[p]
    /\ \A p \in Colors :
          VectorsOf(m_accumulators[1], lastOp.net, p)
             = FullTransform(lastOp.net, positions[2], p)

\* C3: when evaluate returns, the latest state is computed for both
\* perspectives of the evaluated network, and no assert failed on the way.
C3_EvaluatePostcondition ==
    lastOp.op = "evaluate" =>
       \A p \in Colors :
          /\ Latest[lastOp.net].computed[p]
          /\ lastOp.sides[p].ok

\* An evaluate that took the forward branch for one perspective and the
\* refresh branch for the other.
C3_Witness ==
    /\ lastOp.op = "evaluate"
    /\ \E p \in Colors :
          /\ lastOp.sides[p].refreshed
          /\ ~lastOp.sides[Opp(p)].refreshed /\ lastOp.sides[Opp(p)].calls >= 1
    /\ \A p \in Colors : Latest[lastOp.net].computed[p] /\ lastOp.sides[p].ok

\* The entry's snapshot is the exact transform of the placement its
\* bitboards record, from perspective p with the king on ksq.
EntryExact(net, ksq, p, entry) ==
    SnapshotOf(entry)
       = TransformOf(net, ActiveFeatures(p, ksq,
                                         PlacementOf(entry.byColorBB, entry.byTypeBB)))

\* The entry's bitboards are those of pos.
EntryRecords(entry, pos) ==
    /\ entry.byColorBB = [c \in Colors |-> PiecesC(pos, c)]
    /\ entry.byTypeBB = [pt \in PieceTypes |-> PiecesT(pos, pt)]

\* C4: every cache entry's snapshot is the exact transform of the placement
\* recorded in its bitboards, and right after a refresh of a position the
\* refreshed entry's bitboards are that position's.
C4_CacheInvariant ==
    /\ \A net \in Networks, ksq \in Squares, p \in Colors :
          EntryExact(net, ksq, p, caches[net][ksq][p])
    /\ lastOp.op = "reset" =>
          \A net \in Networks, p \in Colors :
             EntryRecords(caches[net][KingSquare(CurrentPos, p)][p], CurrentPos)
    /\ lastOp.op = "evaluate" =>
          \A p \in Colors :
             lastOp.sides[p].refreshed =>
                EntryRecords(caches[lastOp.net][KingSquare(CurrentPos, p)][p], CurrentPos)

\* An evaluate has just refreshed an entry, and another entry of the same
\* network and perspective still holds an earlier position.
C4_Witness ==
    /\ lastOp.op = "evaluate"
    /\ \E p \in Colors :
          /\ lastOp.sides[p].refreshed
          /\ EntryRecords(caches[lastOp.net][KingSquare(CurrentPos, p)][p], CurrentPos)
          /\ \E ksq \in Squares :
                /\ caches[lastOp.net][ksq][p] # EmptyEntry(lastOp.net)
                /\ ~EntryRecords(caches[lastOp.net][ksq][p], CurrentPos)
                /\ EntryExact(lastOp.net, ksq, p, caches[lastOp.net][ksq][p])

\* The positions of the searched line.
LinePositions == {positions[i] : i \in 1 .. Len(positions)}

\* A refresh of pos into the latest state against a given cache.
RefreshOf(net, p, pos, cache) ==
    update_accumulator_refresh_cache(VECTOR, net, p, pos, Latest, cache)

\* The refresh leaves the exact transform of pos and sets computed.
RefreshExact(net, p, pos, cache) ==
    LET r == RefreshOf(net, p, pos, cache).state
    IN /\ VectorsOf(r, net, p) = FullTransform(net, pos, p)
       /\ r[net].computed[p]

\* C5: a refresh of a position, against the cache as it stands (its entries
\* satisfy the cache invariant) or against the initial empty cache, leaves in
\* the state the sums of the weight columns and of the PSQT columns of the
\* features active in the position, and sets computed.
C5_RefreshCorrect ==
    \A net \in Networks, p \in Colors :
       /\ \A pos \in LinePositions : RefreshExact(net, p, pos, caches[net])
       /\ m_current_idx >= 1 => RefreshExact(net, p, CurrentPos, EmptyCache(net))

\* The lists of a refresh of pos against the cache as it stands.
StaleLists(net, p, pos) ==
    RefreshLists(p, KingSquare(pos, p), caches[net][KingSquare(pos, p)][p], pos)

\* A refresh of the current position against an entry that holds another
\* position, with features to remove and features to add, is exact.
C5_Witness ==
    /\ m_current_idx >= 1
    /\ \E net \in Networks, p \in Colors :
          /\ caches[net][KingSquare(CurrentPos, p)][p] # EmptyEntry(net)
          /\ StaleLists(net, p, CurrentPos).removed # <<>>
          /\ StaleLists(net, p, CurrentPos).added # <<>>
          /\ RefreshExact(net, p, CurrentPos, caches[net])

\* The moves at the current ply that need no refresh for perspective p.
NonRefreshMoves(p) ==
    {m \in PushableMoves : ~requires_refresh(DirtyPieceOf(CurrentPos, m), p)}

\* The state push(dp of m) would leave at the next index.
PushedState(m) ==
    AccumulatorState_reset(m_accumulators[m_current_idx], DirtyPieceOf(CurrentPos, m))

\* incremental(FORWARD) from the latest state into the pushed state.
ForwardOf(net, p, m) ==
    update_accumulator_incremental(net, p, FORWARD, KingSquare(DoMove(CurrentPos, m), p),
                                   PushedState(m), Latest)

\* The sizes <<added, removed>> of move m's delta for perspective p.
Shape(p, m) ==
    <<Len(append_changed_indices(p, KingSquare(CurrentPos, p),
                                 DirtyPieceOf(CurrentPos, m)).added),
      Len(append_changed_indices(p, KingSquare(CurrentPos, p),
                                 DirtyPieceOf(CurrentPos, m)).removed)>>

\* C6: for a move that needs no refresh for p, incremental(FORWARD) from a
\* computed accumulator of the position before the move gives the same dense
\* and PSQT vectors as a refresh at the position after it.
C6_IncrementalEqualsRefresh ==
    \A net \in Networks, p \in Colors :
       (m_current_idx >= 1 /\ Latest[net].computed[p]) =>
          \A m \in NonRefreshMoves(p) :
             LET u == ForwardOf(net, p, m)
             IN
             /\ u.ok
             /\ VectorsOf(u.state, net, p)
                  = VectorsOf(update_accumulator_refresh_cache(
                                 VECTOR, net, p, DoMove(CurrentPos, m),
                                 PushedState(m), caches[net]).state, net, p)

\* After an evaluate, a capture that needs no refresh is at hand and the
\* incremental update for it matches the refresh.
C6_Witness ==
    /\ lastOp.op = "evaluate"
    /\ \E p \in Colors :
          /\ Latest[lastOp.net].computed[p]
          /\ \E m \in NonRefreshMoves(p) :
                /\ Shape(p, m) = <<1, 2>>
                /\ VectorsOf(ForwardOf(lastOp.net, p, m).state, lastOp.net, p)
                     = FullTransform(lastOp.net, DoMove(CurrentPos, m), p)

\* incremental(BACKWARD) from what ForwardOf produced into a blank state.
BackwardOf(net, p, m) ==
    update_accumulator_incremental(net, p, BACKWARD, KingSquare(CurrentPos, p),
                                   EmptyAccumulatorState, ForwardOf(net, p, m).state)

\* C7: incremental(FORWARD) from a state into another with a delta, followed
\* by incremental(BACKWARD) from that one with the same delta, reproduces the
\* first state's dense and PSQT vectors, whatever the delta's shape and also
\* when dense elements wrap in between.
C7_ForwardBackward ==
    \A net \in Networks, p \in Colors :
       (m_current_idx >= 1 /\ Latest[net].computed[p]) =>
          \A m \in NonRefreshMoves(p) :
             LET u == BackwardOf(net, p, m)
             IN /\ u.ok
                /\ VectorsOf(u.state, net, p) = VectorsOf(Latest, net, p)

Signed16(x) == IF x >= 32768 THEN x - 65536 ELSE x

RECURSIVE SignedSum(_, _, _)
SignedSum(net, idx, j) ==
    IF idx = <<>> THEN 0
    ELSE Signed16(weights(net, Head(idx) * Dimensions(net) + (j - 1)))
           + SignedSum(net, Tail(idx), j)

\* Some dense element leaves the 16-bit range when m's delta is applied.
Wraps(net, p, m) ==
    \E j \in 1 .. Dimensions(net) :
       Signed16(Latest[net].accumulation[p][j])
         + SignedSum(net, append_changed_indices(p, KingSquare(CurrentPos, p),
                                                 DirtyPieceOf(CurrentPos, m)).added, j)
         - SignedSum(net, append_changed_indices(p, KingSquare(CurrentPos, p),
                                                 DirtyPieceOf(CurrentPos, m)).removed, j)
         \notin (-32768) .. 32767

\* One position offers, for one perspective, a delta of each shape, one of
\* them wrapping a dense element, and every round trip returns the vectors.
C7_Witness ==
    /\ m_current_idx >= 1
    /\ \E net \in Networks, p \in Colors :
          /\ Latest[net].computed[p]
          /\ \A sh \in {<<1, 1>>, <<1, 2>>, <<2, 2>>} :
                \E m \in NonRefreshMoves(p) :
                   /\ Shape(p, m) = sh
                   /\ VectorsOf(BackwardOf(net, p, m).state, net, p)
                        = VectorsOf(Latest, net, p)
          /\ \E m \in NonRefreshMoves(p) : Wraps(net, p, m) /\ Shape(p, m) = <<2, 2>>

\* Positions the search may have refreshed before: the roots and the
\* searched line.
PriorPositions == RootPositions \cup LinePositions

\* Caches with other histories: the initial one, and for each prior position
\* with p's king on the same square the cache a refresh of it leaves.
OtherCaches(net, p) ==
    {EmptyCache(net)} \cup
    {update_accumulator_refresh_cache(VECTOR, net, p, q, EmptyAccumulatorState,
                                      EmptyCache(net)).cache :
        q \in {x \in PriorPositions : KingSquare(x, p) = KingSquare(CurrentPos, p)}}

\* Two refreshes of the current position agree on the vectors and the entry.
SameRefresh(net, p, a, b) ==
    /\ VectorsOf(a.state, net, p) = VectorsOf(b.state, net, p)
    /\ a.cache[KingSquare(CurrentPos, p)][p] = b.cache[KingSquare(CurrentPos, p)][p]

\* C8: a refresh of one position against two caches with different
\* histories gives identical vectors and leaves identical entries.
C8_StaleCacheHarmless ==
    m_current_idx >= 1 =>
       \A net \in Networks, p \in Colors :
          LET a == RefreshOf(net, p, CurrentPos, caches[net])
          IN \A other \in OtherCaches(net, p) :
                SameRefresh(net, p, a, RefreshOf(net, p, CurrentPos, other))

\* After a pop the entry of the current king square still holds the position
\* of the popped ply; a cache with another history differs from it, and the
\* refreshes agree.
C8_Witness ==
    /\ lastOp.op = "pop"
    /\ \E net \in Networks, p \in Colors :
          /\ caches[net][KingSquare(CurrentPos, p)][p] # EmptyEntry(net)
          /\ ~EntryRecords(caches[net][KingSquare(CurrentPos, p)][p], CurrentPos)
          /\ \E other \in OtherCaches(net, p) :
                /\ other[KingSquare(CurrentPos, p)][p] # EmptyEntry(net)
                /\ other[KingSquare(CurrentPos, p)][p]
                     # caches[net][KingSquare(CurrentPos, p)][p]
                /\ SameRefresh(net, p, RefreshOf(net, p, CurrentPos, caches[net]),
                               RefreshOf(net, p, CurrentPos, other))

\* C9: push sets the dirty piece of the state at current_idx, clears that
\* state's four computed flags and increments current_idx by one; no vector,
\* no other state and no cache entry changes.
C9_PushFrame ==
    [][lastOp'.op = "push" =>
         /\ m_current_idx + 1 < StackSize
         /\ m_current_idx' = m_current_idx + 1
         /\ \E m \in PushableMoves :
               /\ m_accumulators'[m_current_idx].dirtyPiece = DirtyPieceOf(CurrentPos, m)
               /\ positions' = Append(positions, DoMove(CurrentPos, m))
         /\ \A net \in Networks, p \in Colors :
               ~m_accumulators'[m_current_idx][net].computed[p]
         /\ \A i \in StackIndices, net \in Networks, p \in Colors :
               VectorsOf(m_accumulators'[i], net, p) = VectorsOf(m_accumulators[i], net, p)
         /\ \A i \in StackIndices \ {m_current_idx} :
               m_accumulators'[i] = m_accumulators[i]
         /\ caches' = caches]_vars

\* A push has reused a state: its flags are clear and it still holds the
\* vectors of an earlier computation, while the state below stays computed.
C9_Witness ==
    /\ lastOp.op = "push"
    /\ m_current_idx >= 2
    /\ \A net \in Networks, p \in Colors : ~Latest[net].computed[p]
    /\ \E net \in Networks, p \in Colors :
          /\ Latest[net].accumulation[p] # ZeroDense(net)
          /\ m_accumulators[m_current_idx - 2][net].computed[p]

\* C10: pop decrements current_idx by one and changes nothing else, so a
\* state that was computed stays computed and exact after the pop.
C10_PopFrame ==
    [][lastOp'.op = "pop" =>
         /\ m_current_idx > 1
         /\ m_current_idx' = m_current_idx - 1
         /\ m_accumulators' = m_accumulators
         /\ caches' = caches
         /\ \A i \in 0 .. (m_current_idx' - 1), net \in Networks, p \in Colors :
               m_accumulators[i][net].computed[p] =>
                  /\ m_accumulators'[i][net].computed[p]
                  /\ VectorsOf(m_accumulators'[i], net, p)
                       = FullTransform(net, positions'[i + 1], p)]_vars

\* A pop has returned to a computed state and the popped ply's state is
\* still computed.
C10_Witness ==
    /\ lastOp.op = "pop"
    /\ \E net \in Networks :
          \A p \in Colors :
             /\ Latest[net].computed[p]
             /\ m_accumulators[m_current_idx][net].computed[p]
             /\ VectorsOf(Latest, net, p) = FullTransform(net, CurrentPos, p)

\* C11: reset, called in any stack state, sets current_idx to 1 and leaves
\* state 0 computed for all four (network, perspective) pairs with the exact
\* transform of the root position.
C11_ResetPostcondition ==
    lastOp.op = "reset" =>
       /\ m_current_idx = 1
       /\ \A net \in Networks, p \in Colors :
             /\ m_accumulators[0][net].computed[p]
             /\ VectorsOf(m_accumulators[0], net, p) = FullTransform(net, positions[1], p)

\* A reset made in the middle of a search: a state above the root is still
\* computed from the line before, and state 0 holds the new root.
C11_Witness ==
    /\ lastOp.op = "reset"
    /\ m_current_idx = 1
    /\ \E net \in Networks, p \in Colors : m_accumulators[1][net].computed[p]
    /\ \A net \in Networks, p \in Colors :
          /\ m_accumulators[0][net].computed[p]
          /\ VectorsOf(m_accumulators[0], net, p) = FullTransform(net, positions[1], p)

\* The computed flag and the vectors of state i for a network and a
\* perspective are the same before and after the step.
Kept(i, net, p) ==
    /\ m_accumulators'[i][net].computed[p] = m_accumulators[i][net].computed[p]
    /\ VectorsOf(m_accumulators'[i], net, p) = VectorsOf(m_accumulators[i], net, p)

\* C12: a computed (ply, network, perspective) of the searched line stays
\* computed with the same vectors through every evaluate, every push at
\* another index and every pop that keeps the ply on the line; and evaluate
\* never clears a computed flag nor overwrites the vectors of a computed
\* state, at any index.
C12_ComputedStable ==
    [][/\ \A i \in StackIndices, net \in Networks, p \in Colors :
             (/\ i < m_current_idx
              /\ i < m_current_idx'
              /\ m_accumulators[i][net].computed[p]
              /\ lastOp'.op # "reset") => Kept(i, net, p)
       /\ lastOp'.op = "evaluate" =>
             \A i \in StackIndices, net \in Networks, p \in Colors :
                m_accumulators[i][net].computed[p] => Kept(i, net, p)]_vars

\* An evaluate of one network has propagated forward to ply 1, which an
\* earlier evaluate had computed for the other network: that one is still
\* computed and exact.
C12_Witness ==
    /\ lastOp.op = "evaluate"
    /\ m_current_idx = 2
    /\ \E p \in Colors :
          /\ lastOp.sides[p].k = 0
          /\ lastOp.sides[p].calls = 1
          /\ \E net \in Networks :
                /\ net # lastOp.net
                /\ m_accumulators[1][net].computed[p]
                /\ VectorsOf(m_accumulators[1], net, p)
                     = FullTransform(net, positions[2], p)

\* The latest state was pushed by a move of p's own king onto a predecessor
\* computed for both perspectives of the network.
KingMovePushed(net, p) ==
    /\ lastOp.op = "push"
    /\ m_current_idx >= 2
    /\ requires_refresh(Latest.dirtyPiece, p)
    /\ ~requires_refresh(Latest.dirtyPiece, Opp(p))
    /\ \A c \in Colors : m_accumulators[m_current_idx - 2][net].computed[c]

\* C13: an evaluate that follows the push of a move of p's own king onto a
\* computed predecessor takes the refresh branch for p, rebuilding the latest
\* state through the cache entry of p's new king square, and the forward
\* incremental branch for the other perspective q, for which no refresh runs
\* and no cache entry changes.
C13_KingMoveBranches ==
    [][\A p \in Colors :
          (lastOp'.op = "evaluate" /\ KingMovePushed(lastOp'.net, p)) =>
             /\ lastOp'.sides[p].refreshed
             /\ lastOp'.sides[p].k = m_current_idx - 1
             /\ lastOp'.sides[p].calls = 0
             /\ EntryRecords(caches'[lastOp'.net][KingSquare(CurrentPos, p)][p], CurrentPos)
             /\ \A ksq \in Squares \ {KingSquare(CurrentPos, p)} :
                   caches'[lastOp'.net][ksq][p] = caches[lastOp'.net][ksq][p]
             /\ VectorsOf(m_accumulators'[m_current_idx - 1], lastOp'.net, p)
                  = SnapshotOf(caches'[lastOp'.net][KingSquare(CurrentPos, p)][p])
             /\ ~lastOp'.sides[Opp(p)].refreshed
             /\ lastOp'.sides[Opp(p)].k = m_current_idx - 2
             /\ lastOp'.sides[Opp(p)].calls = 1
             /\ \A ksq \in Squares :
                   caches'[lastOp'.net][ksq][Opp(p)] = caches[lastOp'.net][ksq][Opp(p)]]_vars

\* An evaluate right after a castling move was pushed: refresh for the side
\* that castled, one forward update for the other side.
C13_Witness ==
    /\ lastOp.op = "evaluate"
    /\ m_current_idx >= 2
    /\ \E p \in Colors :
          /\ requires_refresh(Latest.dirtyPiece, p)
          /\ Len(Latest.dirtyPiece) = 2
          /\ lastOp.sides[p].refreshed
          /\ lastOp.sides[p].k = m_current_idx - 1
          /\ ~lastOp.sides[Opp(p)].refreshed
          /\ lastOp.sides[Opp(p)].calls = 1
          /\ EntryRecords(caches[lastOp.net][KingSquare(CurrentPos, p)][p], CurrentPos)

\* The indices above the root, up to the latest state, whose state is computed
\* for p or whose dirty piece requires a refresh for p.
UsableAbove(net, p) ==
    {j \in 1 .. (m_current_idx - 1) :
        \/ m_accumulators[j][net].computed[p]
        \/ requires_refresh(m_accumulators[j].dirtyPiece, p)}

\* k: the largest of them, or 0 if there is none.
KOf(net, p) ==
    IF UsableAbove(net, p) = {} THEN 0
    ELSE CHOOSE j \in UsableAbove(net, p) : \A x \in UsableAbove(net, p) : x <= j

\* C14: evaluate for perspective p starts from k; afterwards every state in
\* k .. current_idx - 1 is computed for p, by current_idx - 1 - k forward
\* updates and no refresh when state k was computed, by a refresh of the latest
\* state and current_idx - 1 - k backward updates otherwise; the states below k
\* are not written for p.
C14_EvaluateFromK ==
    [][lastOp'.op = "evaluate" =>
          \A p \in Colors :
             /\ lastOp'.sides[p].k = KOf(lastOp'.net, p)
             /\ \A j \in KOf(lastOp'.net, p) .. (m_current_idx - 1) :
                   m_accumulators'[j][lastOp'.net].computed[p]
             /\ lastOp'.sides[p].refreshed
                  = ~m_accumulators[KOf(lastOp'.net, p)][lastOp'.net].computed[p]
             /\ lastOp'.sides[p].calls = m_current_idx - 1 - KOf(lastOp'.net, p)
             /\ \A j \in 0 .. (KOf(lastOp'.net, p) - 1) : Kept(j, lastOp'.net, p)]_vars

\* An evaluate three plies deep found k = 1 by the king move made there, with
\* that state not computed: it refreshed the latest state and made one
\* backward update into state 1, leaving state 0 alone.
C14_Witness ==
    /\ lastOp.op = "evaluate"
    /\ m_current_idx = 3
    /\ \E p \in Colors :
          /\ lastOp.sides[p].k = 1
          /\ requires_refresh(m_accumulators[1].dirtyPiece, p)
          /\ lastOp.sides[p].refreshed
          /\ lastOp.sides[p].calls = 1
          /\ \A j \in 1 .. 2 : m_accumulators[j][lastOp.net].computed[p]
          /\ lastOp.sides[Opp(p)].k = 0
          /\ lastOp.sides[Opp(p)].calls = 2

RECURSIVE ColumnSum(_, _, _, _)
\* The sum over the indices idx[1 .. n] of element j of their weight columns.
ColumnSum(net, idx, j, n) ==
    IF n = 0 THEN 0
    ELSE weights(net, idx[n] * Dimensions(net) + (j - 1)) + ColumnSum(net, idx, j, n - 1)

RECURSIVE PsqtColumnSum(_, _, _, _)
PsqtColumnSum(net, idx, k, n) ==
    IF n = 0 THEN 0
    ELSE psqtWeights(net, idx[n] * PSQTBuckets + (k - 1)) + PsqtColumnSum(net, idx, k, n - 1)

\* start + the added columns - the removed columns, each index counted once.
DeltaApplied(net, dense, psqt, removed, added) ==
    [accumulation |->
        [j \in 1 .. Dimensions(net) |->
           (dense[j] + ColumnSum(net, added, j, Len(added))
              + Len(removed) * 65536 - ColumnSum(net, removed, j, Len(removed))) % 65536],
     psqtAccumulation |->
        [k \in 1 .. PSQTBuckets |->
           psqt[k] + PsqtColumnSum(net, added, k, Len(added))
             - PsqtColumnSum(net, removed, k, Len(removed))]]

\* The lists the claim prescribes for a call: those of the dirty piece going
\* FORWARD, the same with added and removed exchanged going BACKWARD.
PrescribedLists(perspective, Direction, ksq, dp) ==
    IF Direction = FORWARD
    THEN append_changed_indices(perspective, ksq, dp)
    ELSE [removed |-> append_changed_indices(perspective, ksq, dp).added,
          added |-> append_changed_indices(perspective, ksq, dp).removed]

\* C15: for every call of the incremental kernel whose list sizes are in the
\* contract, every assert holds, the assert of the chosen branch included, the
\* target's dense and PSQT vectors are the source's plus the added columns
\* minus the removed columns, each once, and the target is computed.
C15_IncrementalBranches ==
    lastOp.op = "incremental" =>
       LET l == PrescribedLists(lastOp.perspective, lastOp.Direction, lastOp.ksq, lastOp.dp)
           net == lastOp.net
           p == lastOp.perspective
       IN /\ <<Len(l.added), Len(l.removed)>> \in
                (IF lastOp.Direction = FORWARD THEN {<<1, 1>>, <<1, 2>>, <<2, 2>>}
                 ELSE {<<1, 1>>, <<2, 1>>, <<2, 2>>})
          /\ lastOp.result.ok
          /\ BranchAssert(lastOp.Direction, l.added, l.removed)
          /\ lastOp.result.state[net].computed[p]
          /\ VectorsOf(lastOp.result.state, net, p)
               = DeltaApplied(net, lastOp.source[net].accumulation[p],
                              lastOp.source[net].psqtAccumulation[p], l.removed, l.added)

\* A BACKWARD call over a capture, two indices to add and one to remove, from
\* a source next to the top of the 16-bit range.
C15_Witness ==
    /\ lastOp.op = "incremental"
    /\ lastOp.Direction = BACKWARD
    /\ Len(append_changed_indices(lastOp.perspective, lastOp.ksq, lastOp.dp).removed) = 2
    /\ Len(append_changed_indices(lastOp.perspective, lastOp.ksq, lastOp.dp).added) = 1
    /\ lastOp.source[lastOp.net].accumulation[lastOp.perspective][1] = 65535
    /\ lastOp.result.ok
    /\ lastOp.result.state[lastOp.net].computed[lastOp.perspective]
    /\ lastOp.result.state[lastOp.net].accumulation[lastOp.perspective]
         # lastOp.source[lastOp.net].accumulation[lastOp.perspective]

\* C16: in the refresh kernel the fused application of the lists (pairs, one
\* triple when the lengths differ by one and there are more than two indices,
\* the remainder singly) yields the snapshot of subtracting every removed
\* index and then adding every added index, each index applied once, for every
\* pair of list lengths, empty lists included.
C16_FusedEqualsStraight ==
    lastOp.op = "refresh" =>
       /\ lastOp.fused = lastOp.straight
       /\ lastOp.fused = DeltaApplied(lastOp.net, lastOp.entry.accumulation,
                                      lastOp.entry.psqtAccumulation,
                                      lastOp.l.removed, lastOp.l.added)

\* A refresh of three removed and two added indices: one fused pair, then the
\* triple of one added and two removed columns.
C16_Witness ==
    /\ lastOp.op = "refresh"
    /\ Len(lastOp.l.removed) = 3
    /\ Len(lastOp.l.added) = 2
    /\ combineLast3(lastOp.l.removed, lastOp.l.added)
    /\ FusedPairCount(lastOp.l.removed, lastOp.l.added) = 1
    /\ lastOp.fused = lastOp.straight
    /\ lastOp.fused.accumulation # lastOp.entry.accumulation

\* C17: every call of the incremental kernel made by evaluate is handed a
\* source that is computed for the perspective and a target that is not, so
\* the kernel never reads the vectors of a state that is not computed.
C17_KernelPrecondition ==
    lastOp.op = "evaluate" => \A p \in Colors : lastOp.sides[p].pre

\* An evaluate that called the kernel on the forward path for one perspective
\* and on the backward path, after a refresh, for the other.
C17_Witness ==
    /\ lastOp.op = "evaluate"
    /\ \E p \in Colors :
          /\ ~lastOp.sides[p].refreshed /\ lastOp.sides[p].calls >= 2
          /\ lastOp.sides[Opp(p)].refreshed /\ lastOp.sides[Opp(p)].calls >= 1
    /\ \A p \in Colors : lastOp.sides[p].pre /\ lastOp.sides[p].ok

\* C18: once the stack is reset, states[0] is computed for every network and
\* perspective whatever is pushed, popped or evaluated; so evaluate takes its
\* refresh and backward branch only with end >= 1 and m_current_idx >= 2, and
\* the unsigned index of the backward loop never wraps nor leaves the stack:
\* every evaluate terminates.
C18_EvaluateTerminates ==
    /\ m_current_idx >= 1 =>
          \A net \in Networks, p \in Colors : m_accumulators[0][net].computed[p]
    /\ lastOp.op = "evaluate" =>
          \A p \in Colors :
             /\ lastOp.sides[p].inBounds
             /\ lastOp.sides[p].k \in 0 .. (m_current_idx - 1)
             /\ lastOp.sides[p].calls <= m_current_idx - 1
             /\ lastOp.sides[p].refreshed =>
                   lastOp.sides[p].k >= 1 /\ m_current_idx >= 2

\* An evaluate two plies above the root whose backward loop ran down to
\* end = 1 and stopped there.
C18_Witness ==
    /\ lastOp.op = "evaluate"
    /\ m_current_idx >= 3
    /\ \E p \in Colors :
          /\ lastOp.sides[p].refreshed
          /\ lastOp.sides[p].k = 1
          /\ lastOp.sides[p].calls = m_current_idx - 2
          /\ lastOp.sides[p].inBounds
    /\ \A net \in Networks, p \in Colors : m_accumulators[0][net].computed[p]

\* C19: evaluate never hands the incremental kernel a dirty piece that
\* requires a refresh for the perspective: the dirty pieces its propagation
\* consumes are those of the states strictly above k, none of which requires
\* one, so the perspective's king stands on the square read from the current
\* position at every ply from k to the latest whose accumulator the kernel
\* reads or writes.
C19_NoKernelAcrossKingMove ==
    lastOp.op = "evaluate" =>
       \A p \in Colors :
          /\ ~lastOp.sides[p].refreshDp
          /\ \A j \in (lastOp.sides[p].k + 1) .. (m_current_idx - 1) :
                ~requires_refresh(m_accumulators[j].dirtyPiece, p)
          /\ \A j \in lastOp.sides[p].k .. (m_current_idx - 1) :
                KingSquare(positions[j + 1], p) = KingSquare(CurrentPos, p)

\* An evaluate whose backward propagation stopped at the state of a king move
\* of the perspective, the king standing elsewhere at the ply below.
C19_Witness ==
    /\ lastOp.op = "evaluate"
    /\ \E p \in Colors :
          /\ lastOp.sides[p].k >= 1
          /\ lastOp.sides[p].calls >= 1
          /\ requires_refresh(m_accumulators[lastOp.sides[p].k].dirtyPiece, p)
          /\ KingSquare(positions[lastOp.sides[p].k], p) # KingSquare(CurrentPos, p)
          /\ ~lastOp.sides[p].refreshDp
          /\ lastOp.sides[Opp(p)].calls >= 1
          /\ ~lastOp.sides[Opp(p)].refreshDp

\* The latest state is computed for both perspectives of the network net.
LatestComputed(net) ==
    /\ m_current_idx >= 1
    /\ \A p \in Colors : m_accumulators[m_current_idx - 1][net].computed[p]

\* C20: evaluate is idempotent: an evaluate that directly follows an evaluate
\* of the same network, and an evaluate that directly follows a pop onto a
\* ply already computed for its network, run no kernel, neither the refresh
\* nor the incremental one, and leave every accumulator state and every cache
\* entry as they were.
C20_EvaluateIdempotent ==
    [][(/\ lastOp'.op = "evaluate"
        /\ \/ lastOp.op = "evaluate" /\ lastOp.net = lastOp'.net
           \/ lastOp.op = "pop" /\ LatestComputed(lastOp'.net))
       => /\ m_accumulators' = m_accumulators
          /\ caches' = caches
          /\ \A p \in Colors :
                /\ ~lastOp'.sides[p].refreshed
                /\ lastOp'.sides[p].calls = 0
                /\ lastOp'.sides[p].k = m_current_idx - 1]_vars

\* The second of two evaluates of one network made right after a push: the
\* four operations were reset, push, evaluate, evaluate.
C20_Witness ==
    /\ lastOp.op = "evaluate"
    /\ nops = 4
    /\ m_current_idx = 2
    /\ LatestComputed(lastOp.net)
    /\ \A p \in Colors : lastOp.sides[p].calls = 0 /\ ~lastOp.sides[p].refreshed

\* C21: an evaluate modifies, for a perspective p, no cache entry other than
\* cache[pos.kingSquare(p)][p] of the evaluated network, and that one only
\* when it took the refresh branch for p; on the forward branch no entry of p
\* changes, and every other entry is unchanged on both branches.
C21_EvaluateCacheFrame ==
    [][lastOp'.op = "evaluate" =>
          \A p \in Colors, ksq \in Squares :
             caches'[lastOp'.net][ksq][p] # caches[lastOp'.net][ksq][p] =>
                /\ lastOp'.sides[p].refreshed
                /\ ksq = KingSquare(CurrentPos, p)]_vars

\* The evaluate that follows reset and the push of a king move of p: the
\* entry of p's new king square now records the current position, the entry
\* of the other perspective, served by the forward branch, still the root's.
C21_Witness ==
    /\ lastOp.op = "evaluate"
    /\ nops = 3
    /\ m_current_idx = 2
    /\ \E p \in Colors :
          /\ lastOp.sides[p].refreshed
          /\ ~lastOp.sides[Opp(p)].refreshed
          /\ lastOp.sides[Opp(p)].calls = 1
          /\ KingSquare(CurrentPos, p) # KingSquare(positions[1], p)
          /\ EntryRecords(caches[lastOp.net][KingSquare(CurrentPos, p)][p], CurrentPos)
          /\ ~EntryRecords(caches[lastOp.net][KingSquare(CurrentPos, p)][p], positions[1])
          /\ EntryRecords(caches[lastOp.net][KingSquare(CurrentPos, Opp(p))][Opp(p)],
                          positions[1])

\* C22: the two networks are independent under evaluate: an evaluate of one
\* network leaves the other network's accumulator, vectors and computed
\* flags, in every state of the stack and the other network's cache
\* unchanged; so after a push followed by an evaluate of one network the
\* latest state is still not computed for the other network.
C22_NetworksIndependent ==
    [][lastOp'.op = "evaluate" =>
          /\ \A i \in StackIndices :
                m_accumulators'[i][OtherNet(lastOp'.net)]
                   = m_accumulators[i][OtherNet(lastOp'.net)]
          /\ caches'[OtherNet(lastOp'.net)] = caches[OtherNet(lastOp'.net)]
          /\ lastOp.op = "push" =>
                \A p \in Colors :
                   ~m_accumulators'[m_current_idx - 1][OtherNet(lastOp'.net)].computed[p]]_vars

\* reset, push, evaluate of one network: the latest state is computed for
\* that network after kernel calls and not computed for the other one, whose
\* root state is still computed.
C22_Witness ==
    /\ lastOp.op = "evaluate"
    /\ nops = 3
    /\ m_current_idx = 2
    /\ \A p \in Colors :
          /\ Latest[lastOp.net].computed[p]
          /\ ~Latest[OtherNet(lastOp.net)].computed[p]
          /\ m_accumulators[0][OtherNet(lastOp.net)].computed[p]
    /\ \E p \in Colors : lastOp.sides[p].calls = 1

=============================================================================
